---------------------------- MODULE Spec2Model ----------------------------
(***************************************************************************)
(* Model of galsimcat.py: the catalog-to-field rendering pipeline.        *)
(*                                                                         *)
(* Python floats are modelled as decimal fixed-point numbers: the integer  *)
(* n stands for the real n/S.  Products and quotients truncate toward      *)
(* zero at that resolution.  Pixel indices, counters and the command-line  *)
(* integers are plain integers.  The finite-difference images are exact    *)
(* rationals: an image of integer numerators over one denominator.         *)
(***************************************************************************)
EXTENDS Integers, Sequences, FiniteSets, TLC

(***************************************************************************)
(* Fixed-point arithmetic (the float operators of the source).             *)
(***************************************************************************)
S == 10000
SHalf == 100

Abs(a) == IF a < 0 THEN -a ELSE a
Sgn(a) == IF a < 0 THEN -1 ELSE IF a > 0 THEN 1 ELSE 0
Max(a, b) == IF a >= b THEN a ELSE b
Min(a, b) == IF a <= b THEN a ELSE b

\* float(n) for an integer n
Fl(n) == n * S

MulAbs(a, b) ==
    LET ah == a \div S
        al == a % S
        bh == b \div S
        bl == b % S
    IN  ah * bh * S + ah * bl + al * bh + (al * bl) \div S

\* a * b
Mul(a, b) == Sgn(a) * Sgn(b) * MulAbs(Abs(a), Abs(b))

DivAbs(a, b) ==
    LET q  == a \div b
        r  == a % b
        d1 == (r * SHalf) \div b
        r1 == (r * SHalf) % b
        d2 == (r1 * SHalf) \div b
    IN  q * S + d1 * SHalf + d2

\* a / b for b # 0 (the callers raise ZeroDivisionError on b = 0)
Div(a, b) == Sgn(a) * Sgn(b) * DivAbs(Abs(a), Abs(b))

\* the integer above the floor of v
FloorPlusOne(v) == (v \div S) + 1

\* int(math.ceil(v))
Ceil(v) == -((-v) \div S)

\* math.pi and the natural logarithm of 2 at the model's resolution
pi == 31416
Ln2 == 6931

\* math.sqrt(v) for v >= 0: the largest r with r*r <= v*S
RECURSIVE SqrtSearch(_, _, _)
SqrtSearch(v, lo, hi) ==
    IF lo >= hi THEN lo
    ELSE LET mid == (lo + hi + 1) \div 2
         IN  IF mid * mid <= v THEN SqrtSearch(v, mid, hi)
             ELSE SqrtSearch(v, lo, mid - 1)

ISqrt(v) == SqrtSearch(v, 0, Min(v, 46340))

Sqrt(v) == IF v < 200000 THEN ISqrt(v * S) ELSE ISqrt(v) * SHalf

\* math.log(v) for v > 0: v = m * 2^k with m in [1,2), then the binary
\* digits of log2(m) by repeated squaring
RECURSIVE Log2Frac(_, _, _)
Log2Frac(m, bit, n) ==
    IF n = 0 THEN 0
    ELSE LET sq == (m * m) \div S
         IN  IF sq >= 2 * S
             THEN bit + Log2Frac(sq \div 2, bit \div 2, n - 1)
             ELSE Log2Frac(sq, bit \div 2, n - 1)

RECURSIVE Log2Norm(_, _)
Log2Norm(v, k) ==
    IF v >= 2 * S THEN Log2Norm(v \div 2, k + 1)
    ELSE IF v < S THEN Log2Norm(v * 2, k - 1)
    ELSE k * 8192 + Log2Frac(v, 4096, 13)

\* log2(v) in units of 1/8192, then times ln 2
Log(v) == LET l2 == Log2Norm(v, 0)
          IN  Sgn(l2) * ((Abs(l2) * Ln2) \div 8192)

\* math.exp(y): 2^(y/ln 2), the fraction by the square-root table of 2
Exp2Table == << 14142, 11892, 10905, 10443, 10219, 10109, 10054,
                10027, 10014, 10007, 10003, 10002, 10001 >>

RECURSIVE Exp2Frac(_, _, _)
Exp2Frac(f, i, acc) ==
    IF i > Len(Exp2Table) THEN acc
    ELSE LET bit == S \div (2 ^ i)
         IN  IF f >= bit /\ bit > 0
             THEN Exp2Frac(f - bit, i + 1, MulAbs(acc, Exp2Table[i]))
             ELSE Exp2Frac(f, i + 1, acc)

RECURSIVE Shift2(_, _)
Shift2(v, n) == IF n = 0 THEN v
                ELSE IF n > 0 THEN Shift2(v * 2, n - 1)
                ELSE Shift2(v \div 2, n + 1)

Exp(y) ==
    LET t == Div(y, Ln2)
        n == t \div S
        f == t - n * S
    IN  Shift2(Exp2Frac(f, 1, S), n)

\* base^n for an integer n >= 0
RECURSIVE IntPow(_, _)
IntPow(b, n) == IF n = 0 THEN S ELSE Mul(b, IntPow(b, n - 1))

\* math.pow(b, e) for b > 0: exact repeated products when e is integral
Pow(b, e) ==
    IF e % S = 0
    THEN IF e >= 0 THEN IntPow(b, e \div S)
         ELSE Div(S, IntPow(b, (-e) \div S))
    ELSE Exp(Mul(e, Log(b)))

\* math.cos(t) and math.sin(t) by their power series
RECURSIVE Series(_, _, _, _)
Series(term, t2, k, n) ==
    IF n = 0 THEN 0
    ELSE term + Series(-Div(Mul(term, t2), Fl(k * (k + 1))), t2, k + 2, n - 1)

Cos(t) == Series(S, Mul(t, t), 1, 10)
Sin(t) == Series(t, Mul(t, t), 2, 10)


(***************************************************************************)
(* Module constants of galsimcat.py.                                       *)
(***************************************************************************)
twopi == 2 * pi
deg2rad == Div(pi, Fl(180))
deg2arcsec == Fl(3600)
arcmin2arcsec == Fl(60)

\* the isophote cut (ADU per pixel) and the exponential profile's
\* half-light radius in units of its scale radius
fcut == 20000
HlrPerScale == 16783

(***************************************************************************)
(* State.                                                                  *)
(***************************************************************************)
VARIABLES
    args,        \* the parsed command line
    cat,         \* the catalog's rows after the header line
    pc,          \* position of main()
    exitStatus,  \* the process's exit status once it has ended
    fdCoefs,     \* finite-difference coefficients, once initialised
    lineno,      \* rows read so far
    nkeep,       \* rows kept so far
    field,       \* the full-field image
    hduList,     \* PrimaryHDU followed by one datacube per kept row
    outputs,     \* the files written, in order
    outcome,     \* how the loop left the last row
    kept,        \* the last kept row's bounding box and nominal parameters
    renders      \* the createStamp calls of the last row, in order

vars == << args, cat, pc, exitStatus, fdCoefs, lineno, nkeep, field,
           hduList, outputs, outcome, kept, renders >>

(***************************************************************************)
(* Setup before the loop (lines 91-107, 133-140).                          *)
(***************************************************************************)
\* galsim.BoundsI and the operations used on it
BoundsI(xmin, xmax, ymin, ymax) ==
    [xmin |-> xmin, xmax |-> xmax, ymin |-> ymin, ymax |-> ymax]

IsDefined(b) == b.xmin <= b.xmax /\ b.ymin <= b.ymax

\* b1 & b2
Intersect(b1, b2) ==
    BoundsI(Max(b1.xmin, b2.xmin), Min(b1.xmax, b2.xmax),
            Max(b1.ymin, b2.ymin), Min(b1.ymax, b2.ymax))

Area(b) == IF IsDefined(b)
           THEN (b.xmax - b.xmin + 1) * (b.ymax - b.ymin + 1)
           ELSE 0

Pixels(b) == (b.xmin .. b.xmax) \X (b.ymin .. b.ymax)

\* galsim.ImageD(bounds): a zero image
ImageD(b) == [bounds |-> b, array |-> [p \in Pixels(b) |-> 0]]

pix == [scale |-> args.pixel_scale]
psf == [beta |-> args.psf_beta, fwhm |-> args.psf_fwhm]
None == [beta |-> 0, fwhm |-> 0]

FieldBounds == BoundsI(1, args.width, 1, args.height)

RAmin == Mul(args.x_center - Mul(S \div 2, Fl(args.width)), args.pixel_scale)
RAmax == Mul(args.x_center + Mul(S \div 2, Fl(args.width)), args.pixel_scale)
DECmin == Mul(args.y_center - Mul(S \div 2, Fl(args.height)), args.pixel_scale)
DECmax == Mul(args.y_center + Mul(S \div 2, Fl(args.height)), args.pixel_scale)

margin == Mul(args.margin, arcmin2arcsec)

f0 == Div(fcut, Mul(args.pixel_scale, args.pixel_scale))

r0psf == Div(Mul(S \div 2, args.psf_fwhm),
             Sqrt(Pow(Fl(2), Div(S, args.psf_beta)) - S))

cpsf == Div(Mul(Mul(Mul(pi, f0), r0psf), r0psf), args.psf_beta - S)

(***************************************************************************)
(* One catalog row (lines 147-224).  A row holds the columns the loop      *)
(* reads: positions in multiples of 1/36000 degree, the rest as floats.    *)
(***************************************************************************)
RowRA(row) == row.ra * (deg2arcsec \div 36000)
RowDEC(row) == row.dec * (deg2arcsec \div 36000)

\* the test of line 153 without the margins
OutsideField(RA, DEC) ==
    \/ RA < RAmin
    \/ RA > RAmax
    \/ DEC < DECmin
    \/ DEC > DECmax

\* line 153
OutsideMargins(RA, DEC) ==
    \/ RA < RAmin - margin
    \/ RA > RAmax + margin
    \/ DEC < DECmin - margin
    \/ DEC > DECmax + margin

\* line 159
TotalFlux(i_ab) == Mul(args.flux_norm, Pow(Fl(10), Fl(24) - i_ab))

\* the test of line 161 with the boundary included
AtOrBelowThreshold(flux) == flux <= Mul(S \div 2, fcut)

\* line 161
BelowThreshold(flux) == flux < Mul(S \div 2, fcut)

\* line 166
NoDisk(hlr_d) == hlr_d <= 0

\* lines 191-196: the psf padding
PsfPad(arg) == IF arg > 0 THEN Mul(r0psf, Sqrt(arg)) ELSE 0

\* lines 189-198: the padded half sizes around the isophote
GeometrySizes(flux, q_d, pa_d, gp, gx, detM, x, rcut) ==
    LET width == Mul(rcut, Sqrt(Div(Mul(S + gp, S + gp) + Mul(gx, gx), detM)))
        height == Mul(rcut, Sqrt(Div(Mul(S - gp, S - gp) + Mul(gx, gx), detM)))
        rpad == PsfPad(Pow(Div(cpsf, flux), -Div(S, args.psf_beta)) - S)
    IN  [raised |-> "", q_d |-> q_d, pa_d |-> pa_d,
         detM |-> detM, x |-> x, rcut |-> rcut,
         width |-> IF rcut <= 0 THEN 0 ELSE width + rpad,
         height |-> IF rcut <= 0 THEN 0 ELSE height + rpad]

\* line 185: math.log raises ValueError unless x > 0
GeometryRcut(flux, r_scale, q_d, pa_d, gp, gx, detM, x) ==
    IF x <= 0 THEN [raised |-> "ValueError"]
    ELSE GeometrySizes(flux, q_d, pa_d, gp, gx, detM, x, -Mul(r_scale, Log(x)))

\* line 184: the division raises ZeroDivisionError on flux*detM = 0
GeometryX(flux, r_scale, q_d, pa_d, gp, gx, detM, den) ==
    IF den = 0 THEN [raised |-> "ZeroDivisionError"]
    ELSE GeometryRcut(flux, r_scale, q_d, pa_d, gp, gx, detM,
                      Div(Mul(Mul(Mul(twopi, r_scale), r_scale), f0), den))

\* lines 182-184
GeometryDetM(flux, r_scale, q_d, pa_d, gp, gx, detM) ==
    GeometryX(flux, r_scale, q_d, pa_d, gp, gx, detM, Mul(flux, detM))

\* lines 180-182
GeometryShear(flux, r_scale, q_d, pa_d, gp, gx) ==
    GeometryDetM(flux, r_scale, q_d, pa_d, gp, gx, S - Mul(gp, gp) - Mul(gx, gx))

\* lines 179-181
GeometryG(flux, r_scale, q_d, pa_d, g) ==
    GeometryShear(flux, r_scale, q_d, pa_d, Mul(g, Cos(2 * pa_d)), Mul(g, Sin(2 * pa_d)))

\* lines 174-179: the division raises ZeroDivisionError on q_d = -1
GeometryQ(flux, hlr_d, q_d, pa_d) ==
    IF S + q_d = 0 THEN [raised |-> "ZeroDivisionError"]
    ELSE GeometryG(flux, Div(hlr_d, HlrPerScale), q_d, pa_d, Div(S - q_d, S + q_d))

\* lines 168-198: the shear parameters, the isophote cut and the padded
\* half sizes; raised names the exception a division or logarithm raises
Geometry(row, flux) ==
    IF row.a_d = 0 THEN [raised |-> "ZeroDivisionError"]
    ELSE GeometryQ(flux, row.hlr_d, Div(row.b_d, row.a_d), Mul(row.pa_d, deg2rad))

\* no isophote radius ends the row
NeverBelow(rcut) == FALSE

\* line 186
BelowIsophote(rcut) == rcut <= 0

\* the box of line 220 one pixel short on its upper sides
EvenBox(xpixels, xhalf, ypixels, yhalf) ==
    BoundsI(xpixels - xhalf, xpixels + xhalf - 1, ypixels - yhalf, ypixels + yhalf - 1)

\* lines 205-220
StampBox(xpixels, xhalf, ypixels, yhalf) ==
    BoundsI(xpixels - xhalf, xpixels + xhalf, ypixels - yhalf, ypixels + yhalf)

\* line 223
NoOverlap(bbox) == Area(Intersect(bbox, FieldBounds)) = 0


(***************************************************************************)
(* Exact rationals for the finite-difference images.                       *)
(***************************************************************************)
RECURSIVE Gcd(_, _)
Gcd(a, b) == IF b = 0 THEN a ELSE Gcd(b, a % b)

\* n/d in lowest terms with d > 0
Rat(n, d) ==
    LET g == Gcd(Abs(n), Abs(d))
    IN  [n |-> (Sgn(d) * n) \div g, d |-> Abs(d) \div g]

\* the rational a divided by the float v
RatDivFl(a, v) ==
    LET g == Gcd(Abs(a.n), Abs(v))
    IN  Rat((a.n \div g) * S, a.d * (v \div g))

\* a rational image [bounds, den, array] holds array[p]/den at pixel p;
\* Reduced brings it to lowest terms: den > 0 and no common factor left
RECURSIVE GcdOver(_, _, _)
GcdOver(g, array, todo) ==
    IF todo = {} \/ g = 1 THEN g
    ELSE LET p == CHOOSE q \in todo : TRUE
         IN  GcdOver(Gcd(g, Abs(array[p])), array, todo \ {p})

Reduced(img) ==
    LET g == GcdOver(img.den, img.array, DOMAIN img.array)
    IN  IF g = 1 THEN img
        ELSE [bounds |-> img.bounds, den |-> img.den \div g,
              array |-> [p \in DOMAIN img.array |-> img.array[p] \div g]]

(***************************************************************************)
(* createSource and createStamp (lines 26-44).  The engine that draws a    *)
(* profile is external; Draw stands for it: a deterministic surface        *)
(* brightness that depends on every source parameter, on the kernel and    *)
(* on the pixel's place relative to the stamp's central pixel.             *)
(***************************************************************************)
createSource(p) ==
    [flux |-> p.flux, half_light_radius |-> p.hlr, q |-> p.q, beta |-> p.beta,
     g1 |-> p.g1, g2 |-> p.g2, dx |-> p.xc, dy |-> p.yc]

Draw(src, kernel, pixel, bbox) ==
    LET cx == (bbox.xmin + bbox.xmax) \div 2
        cy == (bbox.ymin + bbox.ymax) \div 2
        gq == Div(S - src.q, S + src.q)
        e1 == Mul(gq, Cos(2 * src.beta)) + src.g1
        e2 == Mul(gq, Sin(2 * src.beta)) + src.g2
        s2 == Mul(src.half_light_radius, src.half_light_radius)
              + Mul(kernel.fwhm, kernel.fwhm) + Mul(pixel.scale, pixel.scale)
        fs == Mul(src.flux, s2) * S
        a == S - e1
        b == S + e1
        c == 2 * e2
    IN  [p \in Pixels(bbox) |->
            LET dx == (p[1] - cx) * pixel.scale - src.dx
                dy == (p[2] - cy) * pixel.scale - src.dy
            IN  fs \div (s2 + (a * ((dx * dx) \div S) + b * ((dy * dy) \div S)
                               - c * ((dx * dy) \div S)) \div S)]

createStamp(src, kernel, pixel, bbox) ==
    [bounds |-> bbox, array |-> Draw(src, kernel, pixel, bbox)]

\* one entry of the render log
Call(newparams, kernel, bbox) ==
    [params |-> newparams, psf |-> kernel # None, bbox |-> bbox]

(***************************************************************************)
(* Image arithmetic.                                                       *)
(***************************************************************************)
\* plus - minus
ImgSub(a, b) ==
    [bounds |-> a.bounds, array |-> [p \in DOMAIN a.array |-> a.array[p] - b.array[p]]]

\* (rational scalar) * (float image): a rational image
ImgScale(c, img) ==
    LET g == Gcd(Abs(c.n), S)
    IN  [bounds |-> img.bounds, den |-> c.d * (S \div g),
         array |-> [p \in DOMAIN img.array |-> (c.n \div g) * img.array[p]]]

\* partial += image, both rational
ImgAcc(partial, img) ==
    LET g == Gcd(partial.den, img.den)
        mp == img.den \div g
        mi == partial.den \div g
    IN  Reduced([bounds |-> partial.bounds, den |-> partial.den * mp,
                 array |-> [p \in DOMAIN partial.array |->
                               partial.array[p] * mp + img.array[p] * mi]])

\* partial = galsim.ImageD(bbox), line 267
ZeroPartial(bbox) ==
    [bounds |-> bbox, den |-> 1, array |-> [p \in Pixels(bbox) |-> 0]]

(***************************************************************************)
(* The field compositor (lines 248-250).                                   *)
(***************************************************************************)
\* line 249 without the intersection
WholeStamp(nominal, fld) == nominal.bounds

\* overlap = nominal.bounds & field.bounds
Overlap(nominal, fld) == Intersect(nominal.bounds, fld.bounds)

\* line 250 with = in place of +=
PasteNominal(fld, nominal, overlap) ==
    [bounds |-> fld.bounds,
     array |-> [p \in DOMAIN fld.array \cup Pixels(overlap) |->
                   IF p \in Pixels(overlap) THEN nominal.array[p]
                   ELSE fld.array[p]]]

\* field[overlap] += nominal[overlap]: the pixels of overlap are written,
\* whether or not the field holds them
AddNominal(fld, nominal, overlap) ==
    [bounds |-> fld.bounds,
     array |-> [p \in DOMAIN fld.array \cup Pixels(overlap) |->
                   IF p \in Pixels(overlap)
                   THEN (IF p \in DOMAIN fld.array THEN fld.array[p] ELSE 0)
                        + nominal.array[p]
                   ELSE fld.array[p]]]

Composite(fld, nominal) == AddNominal(fld, nominal, Overlap(nominal, fld))

(***************************************************************************)
(* The finite-difference engine (lines 109-122, 255-280).                  *)
(***************************************************************************)
\* lines 115-122 with the sign of the second coefficient of order 2 lost
UnsignedTable(order) ==
    IF order = 1 THEN << Rat(1, 2) >>
    ELSE IF order = 2 THEN << Rat(2, 3), Rat(1, 12) >>
    ELSE IF order = 3 THEN << Rat(3, 4), Rat(-3, 20), Rat(1, 60) >>
    ELSE << Rat(4, 5), Rat(-1, 5), Rat(4, 105), Rat(-1, 280) >>

\* lines 115-122
CoefTable(order) ==
    IF order = 1 THEN << Rat(1, 2) >>
    ELSE IF order = 2 THEN << Rat(2, 3), Rat(-1, 12) >>
    ELSE IF order = 3 THEN << Rat(3, 4), Rat(-3, 20), Rat(1, 60) >>
    ELSE << Rat(4, 5), Rat(-1, 5), Rat(4, 105), Rat(-1, 280) >>

\* the test of line 110 without its upper limit
BelowOne(order) == order < 1

\* line 110
BadOrder(order) == order < 1 \/ order > 4

\* the variations with the shape parameters ahead of the centroid
ShapeFirst(hlr_d) ==
    << << "hlr", Mul(500, hlr_d) >>,
       << "g1", 300 >>,
       << "g2", 300 >>,
       << "xc", Div(args.pixel_scale, Fl(3)) >>,
       << "yc", Div(args.pixel_scale, Fl(3)) >> >>

\* lines 258-262
Variations(hlr_d) ==
    << << "xc", Div(args.pixel_scale, Fl(3)) >>,
       << "yc", Div(args.pixel_scale, Fl(3)) >>,
       << "hlr", Mul(500, hlr_d) >>,
       << "g1", 300 >>,
       << "g2", 300 >> >>

\* line 270 and line 274
PlusParams(params, newparams, pname, step, delta) ==
    [newparams EXCEPT ![pname] = params[pname] + (step + 1) * delta]

MinusParams(params, newparams, pname, step, delta) ==
    [newparams EXCEPT ![pname] = params[pname] - (step + 1) * delta]

\* range(1, args.partials_order) in place of line 268
FromOne(order) == 1 .. (order - 1)

\* line 268
StepRange(order) == 0 .. (order - 1)

\* line 278
Accumulate(partial, coef, delta, plus, minus) ==
    ImgAcc(partial, ImgScale(RatDivFl(coef, delta), ImgSub(plus, minus)))

\* lines 268-278: the loop over step, from st with the dictionary newparams
\* as the previous steps left it
RECURSIVE StepLoop(_, _, _, _, _, _, _)
StepLoop(params, st, bbox, pname, delta, steps, coefs) ==
    IF steps = {} THEN st
    ELSE
    LET step == CHOOSE k \in steps : \A j \in steps : k <= j
        np1 == PlusParams(params, st.newparams, pname, step, delta)
        plus == createStamp(createSource(np1), psf, pix, bbox)
        np2 == MinusParams(params, np1, pname, step, delta)
        minus == createStamp(createSource(np2), psf, pix, bbox)
    IN  StepLoop(params,
                 [newparams |-> np2,
                  partial |-> Accumulate(st.partial, coefs[step + 1], delta, plus, minus),
                  log |-> st.log \o << Call(np1, psf, bbox), Call(np2, psf, bbox) >>],
                 bbox, pname, delta, steps \ {step}, coefs)

\* line 266 without the copy: the dictionary of the preceding variation
KeepPrevious(params, previous) == previous

\* line 266: newparams = params.copy(); previous is the dictionary the
\* preceding variation left behind
CopyParams(params, previous) == params

\* line 280 and the variations after the i-th, whose steps left st
RECURSIVE Partials(_, _, _, _, _, _, _)
PartialsAfter(params, st, bbox, variations, i, order, coefs) ==
    LET rest == Partials(params, st.newparams, bbox, variations, i + 1, order, coefs)
    IN  [planes |-> << st.partial >> \o rest.planes, log |-> st.log \o rest.log]

\* lines 264-280: the loop over the variations
Partials(params, previous, bbox, variations, i, order, coefs) ==
    IF i > Len(variations) THEN [planes |-> << >>, log |-> << >>]
    ELSE PartialsAfter(params,
                       StepLoop(params,
                                [newparams |-> CopyParams(params, previous),
                                 partial |-> ZeroPartial(bbox), log |-> << >>],
                                bbox, variations[i][1], variations[i][2],
                                StepRange(order), coefs),
                       bbox, variations, i, order, coefs)


(***************************************************************************)
(* The body of the loop over catalog rows (lines 144-285).                 *)
(***************************************************************************)
Skip(why) == [outcome |-> why]

\* lines 200-241 for a row that passed the isophote test
Placement(row, flux, geo) ==
    LET RA == RowRA(row)
        DEC == RowDEC(row)
        scaled == 2 * args.nvisits * flux
        xoffset == Div(RA - RAmin, args.pixel_scale)
        yoffset == Div(DEC - DECmin, args.pixel_scale)
        xpixels == Ceil(xoffset)
        ypixels == Ceil(yoffset)
        xhalf == Ceil(Div(geo.width, args.pixel_scale))
        yhalf == Ceil(Div(geo.height, args.pixel_scale))
        xshift == Mul(xoffset - (Fl(xpixels) - S \div 2), args.pixel_scale)
        yshift == Mul(yoffset - (Fl(ypixels) - S \div 2), args.pixel_scale)
    IN  [xoffset |-> xoffset, yoffset |-> yoffset,
         xpixels |-> xpixels, ypixels |-> ypixels,
         xhalf |-> xhalf, yhalf |-> yhalf,
         bbox |-> StampBox(xpixels, xhalf, ypixels, yhalf),
         params |-> [flux |-> scaled, xc |-> xshift, yc |-> yshift,
                     hlr |-> row.hlr_d, q |-> geo.q_d, beta |-> geo.pa_d,
                     g1 |-> args.g1, g2 |-> args.g2]]

\* lines 222-227
FilterOverlap(place) ==
    IF NoOverlap(place.bbox) THEN Skip("overlap")
    ELSE [outcome |-> "kept", place |-> place]

\* lines 172-224
FilterGeometry(row, flux, geo) ==
    IF geo.raised # "" THEN Skip(geo.raised)
    ELSE IF BelowIsophote(geo.rcut) THEN Skip("rcut")
    ELSE FilterOverlap(Placement(row, flux, geo))

\* lines 160-224
FilterFlux(row, flux) ==
    IF BelowThreshold(flux) THEN Skip("flux")
    ELSE IF NoDisk(row.hlr_d) THEN Skip("hlr")
    ELSE FilterGeometry(row, flux, Geometry(row, flux))

\* lines 147-227: the tests that skip a row, in the loop's order; a kept
\* row comes with its placement
Filter(row) ==
    IF OutsideMargins(RowRA(row), RowDEC(row)) THEN Skip("margin")
    ELSE FilterFlux(row, TotalFlux(row.i_ab))

\* lines 244-246: the nominal stamp of a placed source
Nominal(place) == createStamp(createSource(place.params), psf, pix, place.bbox)

\* lines 248-285: the field and the datacube, once the stamps are drawn
Rendered(place, fld, nopsf, nominal, fd) ==
    [outcome |-> "kept",
     place |-> place,
     field |-> Composite(fld, nominal),
     datacube |-> << nopsf, nominal >> \o fd.planes,
     log |-> << Call(place.params, None, place.bbox),
                Call(place.params, psf, place.bbox) >> \o fd.log]

\* lines 243-285 for a kept row
Render(row, place, fld, coefs) ==
    Rendered(place, fld,
             createStamp(createSource(place.params), None, pix, place.bbox),
             Nominal(place),
             IF args.partials
             THEN Partials(place.params, place.params, place.bbox,
                           Variations(row.hlr_d), 1, args.partials_order, coefs)
             ELSE [planes |-> << >>, log |-> << >>])

\* lines 226-285, for a row the tests left with outcome f
RenderKept(row, f, fld, coefs) ==
    IF f.outcome = "kept" THEN Render(row, f.place, fld, coefs) ELSE f

\* one pass of the loop body over row
RowResult(row, fld, coefs) == RenderKept(row, Filter(row), fld, coefs)

Raised(why) == why \in {"ZeroDivisionError", "ValueError"}

(***************************************************************************)
(* Inputs: the command lines and the catalogs.                             *)
(***************************************************************************)
MaxRows == 2

BaseArgs ==
    [x_center |-> Fl(7), y_center |-> -15000, width |-> 4, height |-> 3,
     margin |-> 125, pixel_scale |-> 2500, psf_fwhm |-> 3000,
     psf_beta |-> Fl(3), flux_norm |-> Fl(1), nvisits |-> 1,
     g1 |-> 100, g2 |-> 0]

ArgSet ==
    { [a \in DOMAIN BaseArgs \cup {"partials", "partials_order", "sky_level"} |->
          IF a = "partials" THEN p
          ELSE IF a = "partials_order" THEN o
          ELSE IF a = "sky_level" THEN k
          ELSE BaseArgs[a]] :
      p \in BOOLEAN, o \in 0 .. 5, k \in {0, Fl(1)} }

Rows ==
    [ra : {15, 16, 25, 30, 40}, dec : {-5, -3, 10},
     i_ab : {Fl(25), Fl(24), Fl(23)}, hlr_d : {0, 1000, 2000},
     pa_d : {0, Fl(45)}, a_d : {Fl(2)}, b_d : {-Fl(1), 0, Fl(1), Fl(2)}]

\* the rows of the longer catalogs: three faint sources whose stamps share
\* field pixels or hang over the field's edge, and a brighter, wider one
CoreRows ==
    { r \in Rows : /\ r.dec = -5
                   /\ r.hlr_d = 1000
                   /\ r.pa_d = 0
                   /\ r.b_d = Fl(1)
                   /\ \/ r.i_ab = Fl(24) /\ r.ra \in {15, 16, 25}
                      \/ r.i_ab = Fl(23) /\ r.ra = 16 }

RECURSIVE SeqsUpTo(_, _)
SeqsUpTo(set, n) ==
    IF n = 0 THEN { << >> }
    ELSE LET shorter == SeqsUpTo(set, n - 1)
         IN  shorter \cup { Append(q, r) : q \in shorter, r \in set }

\* the first-order command lines without sky, and those of them without
\* partials
PlainArgs == { b \in ArgSet : b.partials_order = 1 /\ b.sky_level = 0 }

BareArgs == { b \in PlainArgs : ~b.partials }

\* the command lines of a survey without flux: every source has zero or
\* negative flux
DarkArgs == { [a EXCEPT !.flux_norm = n] : a \in BareArgs, n \in {0, -Fl(1)} }

\* the row that follows another one in the two-row catalogs
NextRow == CHOOSE r \in CoreRows : r.ra = 16 /\ r.i_ab = Fl(24)

\* every command line with every short catalog of core rows (the orders
\* above the first on at most one row); every single row under the first-order
\* command lines without sky; every row followed by a core row under the one
\* without partials; and the short catalogs of core rows under the command
\* lines without flux
Inputs ==
    { in \in ArgSet \X SeqsUpTo(CoreRows, MaxRows) :
         in[1].partials_order > 1 => Len(in[2]) <= 1 }
    \cup (PlainArgs \X { << r >> : r \in Rows })
    \cup (BareArgs \X { << r, NextRow >> : r \in Rows })
    \cup (DarkArgs \X SeqsUpTo(CoreRows, MaxRows))

(***************************************************************************)
(* main().                                                                 *)
(***************************************************************************)
NoKept == [xpixels |-> 0]
PrimaryHDU == << >>

Init ==
    /\ \E input \in Inputs : args = input[1] /\ cat = input[2]
    /\ pc = "configure"
    /\ exitStatus = -1
    /\ fdCoefs = << >>
    /\ lineno = 0
    /\ nkeep = 0
    /\ field = ImageD(FieldBounds)
    /\ hduList = << PrimaryHDU >>
    /\ outputs = << >>
    /\ outcome = "none"
    /\ kept = NoKept
    /\ renders = << >>

\* lines 109-122: sys.exit(-1) on a bad order, else the coefficients
Configure ==
    /\ pc = "configure"
    /\ IF args.partials /\ BadOrder(args.partials_order)
       THEN /\ pc' = "exit"
            /\ exitStatus' = (-1) % 256
            /\ UNCHANGED fdCoefs
       ELSE /\ pc' = "loop"
            /\ fdCoefs' = IF args.partials THEN CoefTable(args.partials_order)
                          ELSE << >>
            /\ UNCHANGED exitStatus
    /\ UNCHANGED << args, cat, lineno, nkeep, field, hduList, outputs,
                    outcome, kept, renders >>

\* the effect of one pass of the loop body that ended as res
RowEffect(res) ==
    /\ lineno' = lineno + 1
    /\ outcome' = res.outcome
    /\ IF res.outcome = "kept"
       THEN /\ nkeep' = nkeep + 1
            /\ field' = res.field
            /\ hduList' = Append(hduList, res.datacube)
            /\ kept' = res.place
            /\ renders' = res.log
       ELSE /\ renders' = << >>
            /\ UNCHANGED << nkeep, field, hduList, kept >>
    /\ IF Raised(res.outcome)
       THEN pc' = "raised" /\ exitStatus' = 1
       ELSE UNCHANGED << pc, exitStatus >>

\* lines 144-285: one row; an exception ends the process with status 1
Row ==
    /\ pc = "loop"
    /\ lineno < Len(cat)
    /\ RowEffect(RowResult(cat[lineno + 1], field, fdCoefs))
    /\ UNCHANGED << args, cat, fdCoefs, outputs >>

\* lines 287-290, once the catalog is exhausted
WriteField ==
    /\ pc = "loop"
    /\ lineno = Len(cat)
    /\ outputs' = Append(outputs, [name |-> "_field.fits", data |-> field])
    /\ pc' = "noise"
    /\ UNCHANGED << args, cat, exitStatus, fdCoefs, lineno, nkeep, field,
                    hduList, outcome, kept, renders >>

\* field.addNoise(noise): the generator is external and seeded with a
\* fixed value, so the noise is one fixed pattern scaled by the sky level
AddNoise(fld, sky_level) ==
    [bounds |-> fld.bounds,
     array |-> [p \in DOMAIN fld.array |->
                   fld.array[p] + Mul(sky_level, Fl(((123 + 7 * p[1] + 13 * p[2]) % 5) - 2))]]

\* line 293 without its test
AnySky(sky_level) == TRUE

\* line 293
WithNoise(sky_level) == sky_level > 0

\* lines 292-299
WriteNoise ==
    /\ pc = "noise"
    /\ IF WithNoise(args.sky_level)
       THEN LET noisy == AddNoise(field, 2 * args.nvisits * args.sky_level)
            IN  /\ field' = noisy
                /\ outputs' = Append(outputs, [name |-> "_noise.fits", data |-> noisy])
       ELSE UNCHANGED << field, outputs >>
    /\ pc' = "stamps"
    /\ UNCHANGED << args, cat, exitStatus, fdCoefs, lineno, nkeep,
                    hduList, outcome, kept, renders >>

\* lines 301-305
WriteStamps ==
    /\ pc = "stamps"
    /\ outputs' = Append(outputs, [name |-> "_stamps.fits", data |-> hduList])
    /\ pc' = "done"
    /\ exitStatus' = 0
    /\ UNCHANGED << args, cat, fdCoefs, lineno, nkeep, field,
                    hduList, outcome, kept, renders >>

Next == Configure \/ Row \/ WriteField \/ WriteNoise \/ WriteStamps

Spec == Init /\ [][Next]_vars

(***************************************************************************)
(* Properties of the loop over the catalog.                                *)
(***************************************************************************)
\* the loop takes the row after lineno
RowStep == pc = "loop" /\ lineno < Len(cat) /\ lineno' = lineno + 1

\* the row the last step took
LastRow == cat[lineno]

\* the step left everything a kept row changes as it was
RowDropped ==
    /\ nkeep' = nkeep
    /\ field' = field
    /\ hduList' = hduList
    /\ renders' = << >>

\* the step rendered the row and appended its datacube
RowRendered ==
    /\ nkeep' = nkeep + 1
    /\ Len(hduList') = Len(hduList) + 1
    /\ Len(renders') >= 2

\* the five rejection conditions of a row, stated on the row itself
BeyondMargins(row) ==
    \/ RowRA(row) < RAmin - margin
    \/ RowRA(row) > RAmax + margin
    \/ RowDEC(row) < DECmin - margin
    \/ RowDEC(row) > DECmax + margin

HalfCut == fcut \div 2

TooFaint(row) == TotalFlux(row.i_ab) < HalfCut

NoSize(row) == row.hlr_d <= 0

GeometryOf(row) == Geometry(row, TotalFlux(row.i_ab))

NoIsophote(row) == GeometryOf(row).rcut <= 0

BoxOf(row) == Placement(row, TotalFlux(row.i_ab), GeometryOf(row)).bbox

OffField(row) ==
    LET b == BoxOf(row)
    IN  \/ b.xmax < 1
        \/ b.xmin > args.width
        \/ b.ymax < 1
        \/ b.ymin > args.height

\* the first condition that holds, "kept" when none does, and "undefined"
\* for a row whose shape raises before the isophote radius exists
Decision(row) ==
    IF BeyondMargins(row) THEN "margin"
    ELSE IF TooFaint(row) THEN "flux"
    ELSE IF NoSize(row) THEN "hlr"
    ELSE IF GeometryOf(row).raised # "" THEN "undefined"
    ELSE IF NoIsophote(row) THEN "rcut"
    ELSE IF OffField(row) THEN "overlap"
    ELSE "kept"

\* the row's major axis is not zero and its axis ratio is positive
ValidShape(row) == row.a_d # 0 /\ Div(row.b_d, row.a_d) > 0

C1_Raised ==
    /\ lineno >= 1
    /\ pc = "raised"
    /\ ~ ValidShape(LastRow)
    /\ Decision(LastRow) = "undefined"

\* C2 as stated: a row whose flux is exactly half the cut is rejected
C2_ExactHalfRejected ==
    [][RowStep /\ TotalFlux(cat[lineno + 1].i_ab) = HalfCut
          => outcome' # "kept" /\ hduList' = hduList /\ field' = field]_vars

\* C2: a row whose flux is strictly below half the cut is rejected with no
\* datacube and no field update, whatever its other columns; a row whose
\* flux is exactly half the cut passes the flux test, and is kept when no
\* other test rejects it.
C2_StrictlyBelowRejected ==
    [][RowStep =>
          LET row == cat[lineno + 1]
              flux == TotalFlux(row.i_ab)
          IN  /\ flux < HalfCut =>
                    outcome' \in {"margin", "flux"} /\ RowDropped
              /\ flux = HalfCut =>
                    /\ outcome' # "flux"
                    /\ Decision(row) = "kept" => outcome' = "kept" /\ RowRendered]_vars

\* a row with exactly half the cut was kept
C2_Witness ==
    /\ lineno >= 1
    /\ outcome = "kept"
    /\ TotalFlux(LastRow.i_ab) = HalfCut
    /\ nkeep >= 1

\* the datacube of the last kept row
LastCube == hduList[Len(hduList)]

\* pixel n holds the offsets in (n - 1, n]
HoldsOffset(n, offset) == Fl(n - 1) < offset /\ offset <= Fl(n)

IsOdd(n) == n % 2 = 1

\* C3: the stamp of a kept row is the box (xpixels - xhalf, xpixels + xhalf,
\* ypixels - yhalf, ypixels + yhalf) with both halves at least zero, so its
\* width and height are odd and at least 1, and its centre pixel is the
\* pixel that holds the source's centre.
C3_StampBounds ==
    (lineno >= 1 /\ outcome = "kept") =>
        LET b == kept.bbox
            xoffset == Div(RowRA(LastRow) - RAmin, args.pixel_scale)
            yoffset == Div(RowDEC(LastRow) - DECmin, args.pixel_scale)
            w == b.xmax - b.xmin + 1
            h == b.ymax - b.ymin + 1
        IN  /\ kept.xhalf >= 0
            /\ kept.yhalf >= 0
            /\ b.xmin = kept.xpixels - kept.xhalf
            /\ b.xmax = kept.xpixels + kept.xhalf
            /\ b.ymin = kept.ypixels - kept.yhalf
            /\ b.ymax = kept.ypixels + kept.yhalf
            /\ w >= 1 /\ IsOdd(w)
            /\ h >= 1 /\ IsOdd(h)
            /\ b.xmin + b.xmax = 2 * kept.xpixels
            /\ b.ymin + b.ymax = 2 * kept.ypixels
            /\ HoldsOffset(kept.xpixels, xoffset)
            /\ HoldsOffset(kept.ypixels, yoffset)
            /\ \A k \in 1 .. Len(LastCube) : LastCube[k].bounds = b

\* a kept stamp five pixels wide, its source on a pixel's upper edge
C3_Witness ==
    /\ lineno >= 1
    /\ outcome = "kept"
    /\ kept.xhalf = 2
    /\ kept.bbox.xmax - kept.bbox.xmin + 1 = 5
    /\ Div(RowRA(LastRow) - RAmin, args.pixel_scale) = Fl(kept.xpixels)

\* the field pixels the box of a row leaves out
Outside(b) == Pixels(FieldBounds) \ Pixels(b)

\* C4: a kept row adds its nominal stamp to the field on the intersection of
\* the stamp's box with the field's and on no other pixel; the field never
\* gains or loses a pixel, and a row whose stamp misses the field changes
\* none.
C4_WritesInsideField ==
    [][RowStep =>
          /\ DOMAIN field'.array = Pixels(FieldBounds)
          /\ field'.bounds = FieldBounds
          /\ outcome' = "kept" =>
                LET nominal == hduList'[Len(hduList')][2]
                    b == nominal.bounds
                IN  /\ \A p \in Outside(b) : field'.array[p] = field.array[p]
                    /\ \A p \in Pixels(FieldBounds) \cap Pixels(b) :
                          field'.array[p] = field.array[p] + nominal.array[p]
          /\ outcome' # "kept" => field' = field]_vars

\* a kept stamp hanging over the field's edge
C4_Witness ==
    /\ lineno >= 1
    /\ outcome = "kept"
    /\ \/ kept.bbox.xmin < 1
       \/ kept.bbox.xmax > args.width
       \/ kept.bbox.ymin < 1
       \/ kept.bbox.ymax > args.height
    /\ \E p \in Pixels(kept.bbox) \cap Pixels(FieldBounds) : field.array[p] # 0

\* a row rejected because its stamp misses the field
C4_Missed == lineno >= 1 /\ outcome = "overlap"

\* the value the nominal planes of the cubes from i on have at p
RECURSIVE SumNominal(_, _, _)
SumNominal(cubes, i, p) ==
    IF i > Len(cubes) THEN 0
    ELSE (IF p \in Pixels(cubes[i][2].bounds) THEN cubes[i][2].array[p] ELSE 0)
         + SumNominal(cubes, i + 1, p)

\* the field the rows from i on leave, starting from fld
RECURSIVE FieldOf(_, _, _)
FieldOf(rows, i, fld) ==
    IF i > Len(rows) THEN fld
    ELSE LET f == Filter(rows[i])
         IN  FieldOf(rows, i + 1,
                     IF f.outcome = "kept" THEN Composite(fld, Nominal(f.place))
                     ELSE fld)

Reordered(f) == [i \in 1 .. Len(cat) |-> cat[f[i]]]

\* C5: each pixel of the field as first written is the sum, over the kept
\* rows whose stamps cover it, of their nominal stamps' values there, and
\* every reordering of the catalog leaves the same field.
C5_FieldIsSum ==
    Len(outputs) >= 1 =>
        LET written == outputs[1].data
        IN  /\ \A p \in Pixels(FieldBounds) :
                  written.array[p] = SumNominal(hduList, 2, p)
            /\ pc = "noise" =>
                  \A f \in Permutations(1 .. Len(cat)) :
                      FieldOf(Reordered(f), 1, ImageD(FieldBounds)) = written

\* two different kept rows whose stamps share a field pixel
C5_Witness ==
    /\ pc = "noise"
    /\ nkeep = 2
    /\ cat[1] # cat[2]
    /\ \E p \in Pixels(FieldBounds) :
          /\ p \in Pixels(hduList[2][2].bounds)
          /\ p \in Pixels(hduList[3][2].bounds)
          /\ hduList[2][2].array[p] # 0
          /\ hduList[3][2].array[p] # 0

(***************************************************************************)
(* Properties of the finite-difference engine and of the run as a whole.   *)
(***************************************************************************)
OrderInRange == args.partials_order \in 1 .. 4

\* no row read, nothing rendered, nothing written
NothingDone ==
    /\ lineno = 0
    /\ nkeep = 0
    /\ renders = << >>
    /\ hduList = << PrimaryHDU >>
    /\ field = ImageD(FieldBounds)
    /\ outputs = << >>

\* the run never gets past its configuration, and ends with a failure status
AbortsAtOnce ==
    /\ pc \in {"configure", "exit"}
    /\ NothingDone
    /\ pc = "exit" => exitStatus \in 1 .. 255

\* C6 as stated: any order outside 1..4 aborts the run
C6_AnyBadOrderAborts == ~ OrderInRange => AbortsAtOnce

\* C6: with partials enabled, an order outside 1..4 aborts the run with a
\* non-zero exit status before any row is read or rendered and before any
\* output is written; no other configuration ends there.
C6_BadOrderAborts ==
    /\ (args.partials /\ ~ OrderInRange) => AbortsAtOnce
    /\ pc = "exit" => (args.partials /\ ~ OrderInRange)

\* the run aborted on order 5 with partials enabled
C6_Witness ==
    /\ pc = "exit"
    /\ args.partials
    /\ args.partials_order = 5
    /\ exitStatus = 255

\* the last row was kept with partials enabled
KeptWithPartials == lineno >= 1 /\ outcome = "kept" /\ args.partials

ParamNames == << "xc", "yc", "hlr", "g1", "g2" >>

\* the step of the i-th parameter for the last row
DeltaOf(i) == Variations(LastRow.hlr_d)[i][2]

\* the stamp a logged call drew
StampOf(call) == createStamp(createSource(call.params), psf, pix, call.bbox)

\* the nominal record with parameter pname moved by d
Moved(pname, d) == [kept.params EXCEPT ![pname] = kept.params[pname] + d]

\* the places in renders of the plus and minus renders of step s of the
\* i-th parameter under order k
PlusAt(i, s, k) == 2 + 2 * k * (i - 1) + 2 * s - 1
MinusAt(i, s, k) == 2 + 2 * k * (i - 1) + 2 * s

\* one term (c/delta)*(plus - minus)
Term(c, delta, plus, minus) == ImgScale(RatDivFl(c, delta), ImgSub(plus, minus))

\* the sum over steps s..k of the terms of parameter pname
RECURSIVE DerivativeSum(_, _, _, _, _)
DerivativeSum(acc, pname, delta, s, k) ==
    IF s > k THEN acc
    ELSE DerivativeSum(
             ImgAcc(acc, Term(fdCoefs[s], delta,
                              StampOf(Call(Moved(pname, s * delta), psf, kept.bbox)),
                              StampOf(Call(Moved(pname, -(s * delta)), psf, kept.bbox)))),
             pname, delta, s + 1, k)

\* C7: with partials at order k, the derivative image of each of xc, yc,
\* hlr, g1, g2 is the sum over s = 1..k of (c_s/delta) * (render(p + s*delta)
\* - render(p - s*delta)); each of these renders has every other parameter
\* at its nominal value, and the nominal record stays as it was.
C7_CentralDifference ==
    KeptWithPartials =>
        LET k == args.partials_order
        IN  /\ Len(fdCoefs) = k
            /\ renders[2].params = kept.params
            /\ Len(LastCube) = 2 + Len(ParamNames)
            /\ \A i \in 1 .. Len(ParamNames) :
                  /\ \A s \in 1 .. k :
                        /\ renders[PlusAt(i, s, k)].params
                              = Moved(ParamNames[i], s * DeltaOf(i))
                        /\ renders[MinusAt(i, s, k)].params
                              = Moved(ParamNames[i], -(s * DeltaOf(i)))
                  /\ LastCube[2 + i]
                        = DerivativeSum(ZeroPartial(kept.bbox), ParamNames[i],
                                        DeltaOf(i), 1, k)

\* a kept row at order 3 whose g2 derivative is not zero everywhere
C7_Witness ==
    /\ KeptWithPartials
    /\ args.partials_order = 3
    /\ \E p \in Pixels(kept.bbox) : LastCube[7].array[p] # 0

\* the engine's renders of the last row that moved parameter pname
RendersFor(pname) ==
    { j \in 3 .. Len(renders) : renders[j].params[pname] # kept.params[pname] }

\* C8: with partials at order k the engine renders 2*k times per parameter
\* for a kept row, 10*k times in all, always with the PSF; it renders
\* nothing when partials are disabled or the row is rejected.
C8_RenderCount ==
    lineno >= 1 =>
        /\ outcome # "kept" => renders = << >>
        /\ (outcome = "kept" /\ ~ args.partials) =>
              /\ Len(renders) = 2
              /\ Len(LastCube) = 2
        /\ KeptWithPartials =>
              LET k == args.partials_order
              IN  /\ k \in 1 .. 4
                  /\ Len(renders) = 2 + 10 * k
                  /\ \A i \in 1 .. Len(ParamNames) :
                        Cardinality(RendersFor(ParamNames[i])) = 2 * k
                  /\ \A j \in 3 .. Len(renders) : renders[j].psf

\* a kept row at order 4: forty renders by the engine
C8_Witness ==
    /\ KeptWithPartials
    /\ args.partials_order = 4
    /\ Len(renders) = 42

\* the stamps of the renders that moved hlr, in the order they were drawn
HlrStamps ==
    LET at == RendersFor("hlr")
        nth(n) == CHOOSE j \in at : Cardinality({ i \in at : i < j }) = n - 1
    IN  [n \in 1 .. Cardinality(at) |-> StampOf(renders[nth(n)])]

\* (2/3)*(plus1 - minus1)/delta - (1/12)*(plus2 - minus2)/delta
SecondOrder(delta, plus1, minus1, plus2, minus2) ==
    ImgAcc(Term(Rat(2, 3), delta, plus1, minus1),
           Term(Rat(-1, 12), delta, plus2, minus2))

\* the hlr derivative of the last row is the second-order formula on the
\* first four stamps drawn for hlr
HlrSecondOrder ==
    /\ Cardinality(RendersFor("hlr")) >= 4
    /\ LastCube[5] = SecondOrder(DeltaOf(3), HlrStamps[1], HlrStamps[2],
                                 HlrStamps[3], HlrStamps[4])

\* C9 as stated: two renders for hlr at order 2
C9_TwoRenders ==
    (KeptWithPartials /\ args.partials_order = 2) =>
        /\ Cardinality(RendersFor("hlr")) = 2
        /\ HlrSecondOrder

\* C9: at order 2 the engine renders four times for hlr (plus and minus at
\* one and at two steps), and the derivative is (2/3)*(plus1 - minus1)/delta
\* - (1/12)*(plus2 - minus2)/delta.
C9_FourRenders ==
    (KeptWithPartials /\ args.partials_order = 2) =>
        /\ Cardinality(RendersFor("hlr")) = 4
        /\ renders[PlusAt(3, 1, 2)].params = Moved("hlr", DeltaOf(3))
        /\ renders[MinusAt(3, 1, 2)].params = Moved("hlr", -DeltaOf(3))
        /\ renders[PlusAt(3, 2, 2)].params = Moved("hlr", 2 * DeltaOf(3))
        /\ renders[MinusAt(3, 2, 2)].params = Moved("hlr", -(2 * DeltaOf(3)))
        /\ HlrSecondOrder

\* a kept row at order 2 whose hlr derivative is not zero everywhere
C9_Witness ==
    /\ KeptWithPartials
    /\ args.partials_order = 2
    /\ Cardinality(RendersFor("hlr")) = 4
    /\ \E p \in Pixels(kept.bbox) : LastCube[5].array[p] # 0

\* the names of the files written, in order
Names == [i \in 1 .. Len(outputs) |-> outputs[i].name]

\* the number of times the field image has been written
FieldWrites == Cardinality({ i \in 1 .. Len(outputs) : outputs[i].name # "_stamps.fits" })

\* C10 as stated: the field is written twice whatever the sky level
C10_AlwaysTwice == pc = "done" => FieldWrites = 2

\* C10: in a run that reaches the end of the catalog the noiseless field is
\* written first, after every row has been composited and before any noise;
\* with a sky level above zero the field with noise is written next, so the
\* field is written twice, and with a sky level of zero or less it is
\* written once; the stamp archive is written once, last.
C10_WriteOrder ==
    /\ pc \in {"configure", "exit", "loop", "raised"} => outputs = << >>
    /\ Len(outputs) >= 1 =>
          /\ lineno = Len(cat)
          /\ outputs[1].name = "_field.fits"
          /\ outputs[1].data = FieldOf(cat, 1, ImageD(FieldBounds))
    /\ pc = "stamps" => FieldWrites = Len(outputs)
    /\ pc = "done" =>
          /\ IF args.sky_level > 0
             THEN /\ Names = << "_field.fits", "_noise.fits", "_stamps.fits" >>
                  /\ outputs[2].data
                        = AddNoise(outputs[1].data, 2 * args.nvisits * args.sky_level)
                  /\ outputs[2].data # outputs[1].data
                  /\ FieldWrites = 2
             ELSE /\ Names = << "_field.fits", "_stamps.fits" >>
                  /\ FieldWrites = 1
          /\ outputs[Len(outputs)].data = hduList

\* a finished run without sky that kept a row and wrote the field once
C10_Witness ==
    /\ pc = "done"
    /\ args.sky_level = 0
    /\ nkeep >= 1
    /\ FieldWrites = 1
    /\ Len(outputs) = 2

\* a finished run with sky that wrote the field twice
C10_Twice ==
    /\ pc = "done"
    /\ args.sky_level > 0
    /\ nkeep >= 1
    /\ FieldWrites = 2

(***************************************************************************)
(* Properties of the archive of stamps.                                    *)
(***************************************************************************)
\* the rows of a catalog that no test rejects, in catalog order
RECURSIVE Accepted(_)
Accepted(rows) ==
    IF rows = << >> THEN << >>
    ELSE IF Decision(Head(rows)) = "kept"
         THEN << Head(rows) >> \o Accepted(Tail(rows))
         ELSE Accepted(Tail(rows))

\* the stamp and the nominal parameters of an accepted row
PlaceOf(row) == Placement(row, TotalFlux(row.i_ab), GeometryOf(row))

\* the step of the parameter called pname for a row
DeltaNamed(row, pname) ==
    LET v == Variations(row.hlr_d)
    IN  v[CHOOSE i \in 1 .. Len(v) : v[i][1] = pname][2]

\* the sum over steps s..k of the difference terms of parameter pname around
\* the parameters of place
RECURSIVE PartialOf(_, _, _, _, _, _)
PartialOf(acc, place, pname, delta, s, k) ==
    IF s > k THEN acc
    ELSE LET up == [place.params EXCEPT ![pname] = @ + s * delta]
             down == [place.params EXCEPT ![pname] = @ - s * delta]
         IN  PartialOf(
                 ImgAcc(acc, Term(fdCoefs[s], delta,
                                  StampOf(Call(up, psf, place.bbox)),
                                  StampOf(Call(down, psf, place.bbox)))),
                 place, pname, delta, s + 1, k)

\* the planes of an accepted row: the render without PSF, the nominal
\* render and, with partials, the derivatives in the order of ParamNames
CubeOf(row) ==
    LET place == PlaceOf(row)
    IN  << createStamp(createSource(place.params), None, pix, place.bbox),
           createStamp(createSource(place.params), psf, pix, place.bbox) >>
        \o (IF args.partials
            THEN [j \in 1 .. Len(ParamNames) |->
                     PartialOf(ZeroPartial(place.bbox), place, ParamNames[j],
                               DeltaNamed(row, ParamNames[j]), 1,
                               args.partials_order)]
            ELSE << >>)

\* the archive built from a catalog: the empty primary unit, then the cubes
\* of the accepted rows
ArchiveOf(rows) ==
    LET acc == Accepted(rows)
    IN  << PrimaryHDU >> \o [i \in 1 .. Len(acc) |-> CubeOf(acc[i])]

\* the archive written to the file of stamps
Written == outputs[Len(outputs)].data

\* C11: the archive holds, after its empty primary unit, exactly one cube
\* per accepted row in acceptance order; a cube is the render without PSF,
\* the nominal render and, only with partials, the derivatives for xc, yc,
\* hlr, g1, g2 in this order (2 planes or 7), every plane on the row's stamp
\* bounds.
C11_ArchiveLayout ==
    /\ Len(hduList) = 1 + nkeep
    /\ pc = "done" =>
          LET rows == Accepted(cat)
          IN  /\ outputs[Len(outputs)].name = "_stamps.fits"
              /\ Written = ArchiveOf(cat)
              /\ Len(Written) = 1 + Len(rows)
              /\ \A i \in 1 .. Len(rows) :
                    LET cube == Written[1 + i]
                        bbox == PlaceOf(rows[i]).bbox
                    IN  /\ Len(cube) = IF args.partials THEN 7 ELSE 2
                        /\ \A j \in 1 .. Len(cube) :
                              /\ cube[j].bounds = bbox
                              /\ DOMAIN cube[j].array = Pixels(bbox)

\* the archive is written with the seven-plane cubes of two accepted rows
\* whose stamps differ in size, the first one with a g1 derivative that is
\* not zero everywhere
C11_Witness ==
    /\ pc = "done"
    /\ args.partials
    /\ Len(Written) = 3
    /\ Len(Written[2]) = 7
    /\ Area(Written[2][1].bounds) # Area(Written[3][1].bounds)
    /\ \E p \in Pixels(Written[2][6].bounds) : Written[2][6].array[p] # 0

\* the archive is written with the cube of a row that follows a rejected one
C11_AfterRejected ==
    /\ pc = "done"
    /\ Len(cat) = 2
    /\ Decision(cat[1]) = "rcut"
    /\ Len(Written) = 2
    /\ Written[2] = CubeOf(cat[2])

(***************************************************************************)
(* Properties of the degenerate rows.                                      *)
(***************************************************************************)
\* the row passed the tests ahead of the isophote, so that lines 172-185
\* were evaluated for it
ShapeEvaluated(why) == why \notin {"margin", "flux", "hlr"}

\* the row's axis ratio lies in (0, 1]
UnitRatio(row) == ValidShape(row) /\ Div(row.b_d, row.a_d) <= S

\* the step went on to the next row without ending the run
LoopGoesOn ==
    /\ pc' = "loop"
    /\ exitStatus' = exitStatus
    /\ outputs' = outputs
    /\ ~Raised(outcome')

\* C12: a row with zero or negative flux, with a non-positive isophote
\* radius or with a stamp that shares no pixel with the field is skipped,
\* raises nothing and leaves the loop running; the isophote argument x is
\* evaluated only with flux > 0 and, for an axis ratio in (0, 1], with
\* detM > 0 and x > 0.
C12_DegenerateSkipped ==
    [][RowStep =>
          LET row == cat[lineno + 1]
              flux == TotalFlux(row.i_ab)
              d == Decision(row)
          IN  /\ flux <= 0 => outcome' \in {"margin", "flux"}
              /\ d \in {"flux", "rcut", "overlap"} =>
                    outcome' = d /\ RowDropped /\ LoopGoesOn
              /\ ShapeEvaluated(outcome') => flux > 0
              /\ ShapeEvaluated(outcome') /\ UnitRatio(row) =>
                    /\ GeometryOf(row).raised = ""
                    /\ GeometryOf(row).detM > 0
                    /\ GeometryOf(row).x > 0
                    /\ LoopGoesOn]_vars

\* a row with a non-positive isophote radius was skipped and the row after
\* it was rendered
C12_Witness ==
    /\ lineno = 2
    /\ UnitRatio(cat[1])
    /\ Decision(cat[1]) = "rcut"
    /\ GeometryOf(cat[1]).rcut <= 0
    /\ outcome = "kept"
    /\ nkeep = 1

\* a row whose stamp lies off the field was skipped and the row after it
\* was rendered
C12_OffFieldSkipped ==
    /\ lineno = 2
    /\ Decision(cat[1]) = "overlap"
    /\ outcome = "kept"
    /\ nkeep = 1

\* two rows of zero or negative flux were skipped and the run ended well
C12_NoFluxSkipped ==
    /\ pc = "done"
    /\ exitStatus = 0
    /\ lineno = 2
    /\ TotalFlux(cat[1].i_ab) <= 0
    /\ ~BeyondMargins(cat[1])
    /\ nkeep = 0

(***************************************************************************)
(* Properties of the sub-pixel shift.                                      *)
(***************************************************************************)
\* the shift of a source at offset from the centre of pixel n, in arcsec
ShiftFrom(offset, n) == Mul(offset - Fl(n) + S \div 2, args.pixel_scale)

\* the shift lies in (-pixel_scale/2, +pixel_scale/2]
InsidePixel(shift) ==
    /\ 2 * shift > -args.pixel_scale
    /\ 2 * shift <= args.pixel_scale

\* pixel n and shift are right for a source at offset
CentredOn(n, shift, offset) ==
    /\ HoldsOffset(n, offset)
    /\ shift = ShiftFrom(offset, n)
    /\ InsidePixel(shift)
    /\ offset % S = 0 => n = offset \div S /\ 2 * shift = args.pixel_scale

\* C13: both renders of a kept row get, in each axis, the shift
\* (offset - (n - 0.5)) * pixel_scale from the centre of the pixel n that
\* holds the offset; it lies in (-pixel_scale/2, +pixel_scale/2], and a
\* source at a whole offset n sits in pixel n with shift +pixel_scale/2.
C13_SubPixelShift ==
    (lineno >= 1 /\ outcome = "kept") =>
        LET xoffset == Div(RowRA(LastRow) - RAmin, args.pixel_scale)
            yoffset == Div(RowDEC(LastRow) - DECmin, args.pixel_scale)
        IN  \A j \in 1 .. 2 :
               /\ CentredOn(kept.xpixels, renders[j].params.xc, xoffset)
               /\ CentredOn(kept.ypixels, renders[j].params.yc, yoffset)

\* a kept source whose y offset is whole and whose x offset is not, shifted
\* by half a pixel in y and by less, to the left, in x
C13_Witness ==
    /\ lineno >= 1
    /\ outcome = "kept"
    /\ kept.yoffset % S = 0
    /\ kept.ypixels = kept.yoffset \div S
    /\ 2 * renders[2].params.yc = args.pixel_scale
    /\ kept.xoffset % S # 0
    /\ renders[2].params.xc < 0

=============================================================================
